---- MODULE Spec2Model ----
\* A model of the blogicum blog application (blog/models.py, blog/views.py,
\* blog/urls.py, blog/admin.py): the stored rows, the listing queries, the
\* paginator and one action per request handler.
EXTENDS Integers, Sequences, FiniteSets, TLC

\* ---------------------------------------------------------------- bounds
MaxPosts == 1
MaxComments == 1
MaxTime == 2

\* ------------------------------------------------------------- constants
\* PublishedPostMixin.paginate_by / Index.paginate_by / Paginator(posts, 10)
paginate_by == 10

Users == {"u1", "u2"}
\* AnonymousUser: is_authenticated is False and request.user.id is None
Anonymous == "anon"
Slugs == {"c1", "c2"}
Locations == {"l1"}
\* a NULL foreign key / a missing request parameter
NULL == "NULL"
\* the comment side of a LEFT OUTER JOIN row that matched no comment
NoRow == 0
Times == 1..MaxTime
Names == {"n0", "n1"}
Texts == {"a", "b"}
Methods == {"GET", "POST"}
\* values of the ?page= parameter: missing, not an integer, and integers
PageParams == {NULL, "abc", "1", "2"}
PostIds == 1..MaxPosts
CommentIds == 1..MaxComments

VARIABLES
    users,          \* auth_user rows: username -> first_name
    categories,     \* blog_category rows: slug -> is_published
    locations,      \* blog_location rows
    posts,          \* blog_post rows: id -> record
    comments,       \* blog_comment rows: id -> record
    nextPostId,     \* blog_post auto-increment primary key
    nextCommentId,  \* blog_comment auto-increment primary key
    now,            \* timezone.now()
    request,        \* the last request handled
    response        \* its response

vars == <<users, categories, locations, posts, comments, nextPostId,
          nextCommentId, now, request, response>>
store == <<users, categories, locations, posts, comments, nextPostId,
           nextCommentId>>

\* ------------------------------------------------------------ requests
Req(view, user, method, post_id, comment_id, name, page) ==
    [view |-> view, user |-> user, method |-> method, post_id |-> post_id,
     comment_id |-> comment_id, name |-> name, page |-> page]

Resp(status, to, to_post, to_user, items) ==
    [status |-> status, to |-> to, to_post |-> to_post, to_user |-> to_user,
     items |-> items]

Rendered(items) == Resp("ok", NULL, 0, NULL, items)
\* Http404
NotFound == Resp("not_found", NULL, 0, NULL, <<>>)
\* PermissionDenied
Forbidden == Resp("forbidden", NULL, 0, NULL, <<>>)
\* an uncaught exception: handler500
ServerError == Resp("server_error", NULL, 0, NULL, <<>>)
\* AccessMixin.handle_no_permission for an unauthenticated user
RedirectLogin == Resp("redirect", "login", 0, NULL, <<>>)
RedirectDetail(post_id) == Resp("redirect", "post_detail", post_id, NULL, <<>>)
RedirectProfile(username) == Resp("redirect", "profile", 0, username, <<>>)

is_authenticated(u) == u # Anonymous
\* request.user.id: None for AnonymousUser
UserId(u) == IF is_authenticated(u) THEN u ELSE NULL

\* ---------------------------------------------------- query composition
\* the filter without its pub_date__lte clause
PublishedFilterNoDate(p) ==
    /\ posts[p].is_published
    /\ posts[p].category \in DOMAIN categories
    /\ categories[posts[p].category]

\* filter(is_published=True, category__is_published=True,
\*        pub_date__lte=timezone.now()); category__is_published joins
\* blog_category, so a post without a category row matches nothing.
PublishedFilter(p) ==
    /\ posts[p].is_published
    /\ posts[p].category \in DOMAIN categories
    /\ categories[posts[p].category]
    /\ posts[p].pub_date <= now

\* author=None matching every row instead of none
AuthorFilterNoneMatches(p, uid) == uid = NULL \/ posts[p].author = uid

\* Q(author=uid): author=None compiles to "author_id IS NULL"
AuthorFilter(p, uid) == uid # NULL /\ posts[p].author = uid

\* prefetch/annotate join: blog_post LEFT OUTER JOIN blog_comment
JoinComments(ps) ==
    {r \in ps \X DOMAIN comments : comments[r[2]].post = r[1]}
    \cup {<<p, NoRow>> : p \in {q \in ps : \A d \in DOMAIN comments : comments[d].post # q}}

\* Count('*'): every joined row of the group, the NULL row too
CountRows(rows, p) == Cardinality({r \in rows : r[1] = p})

\* Count('comments'): the joined rows of the group whose comment id is not NULL
Count(rows, p) == Cardinality({r \in rows : r[1] = p /\ r[2] # NoRow})

\* annotate(comment_count=Count('comments')): GROUP BY blog_post.id
Annotate(rows) ==
    {[id |-> p, comment_count |-> Count(rows, p)] : p \in {r[1] : r \in rows}}

\* order_by('-pub_date'): every order of the rows with non-increasing pub_date
\* (the database is free in how it orders equal dates)
OrderBy(recs) ==
    {s \in [1..Cardinality(recs) -> recs] :
        /\ \A i, j \in DOMAIN s : i # j => s[i] # s[j]
        /\ \A i, j \in DOMAIN s : i < j => posts[s[i].id].pub_date >= posts[s[j].id].pub_date}

\* PublishedPostMixin.get_published_posts(posts): `base` is the manager's rows
get_published_posts(base) ==
    OrderBy(Annotate(JoinComments({p \in base : PublishedFilter(p)})))

\* the listing without the Q(author=...) alternative
get_users_posts_strict(base, viewer) ==
    OrderBy(Annotate(JoinComments({p \in base : PublishedFilter(p)})))

\* PublishedPostMixin.get_users_posts(posts) for request.user = viewer
get_users_posts(base, viewer) ==
    OrderBy(Annotate(JoinComments(
        {p \in base : PublishedFilter(p) \/ AuthorFilter(p, UserId(viewer))})))

\* ------------------------------------------------------------ paginator
\* int(page) on the digits the model sends
IntOf == ("1" :> 1) @@ ("2" :> 2)
IsInt(raw) == raw \in DOMAIN IntOf

\* Paginator.num_pages: allow_empty_first_page, no orphans
num_pages(object_list) ==
    IF Len(object_list) = 0 THEN 1
    ELSE (Len(object_list) + paginate_by - 1) \div paginate_by

\* Paginator.page(number) for a valid number
page(object_list, number) ==
    LET bottom == (number - 1) * paginate_by
        top == IF bottom + paginate_by > Len(object_list)
               THEN Len(object_list) ELSE bottom + paginate_by
    IN SubSeq(object_list, bottom + 1, top)

\* Paginator.validate_number: "ok", "PageNotAnInteger" or "EmptyPage"
validate_number(object_list, raw) ==
    IF ~IsInt(raw) THEN "PageNotAnInteger"
    ELSE IF IntOf[raw] < 1 THEN "EmptyPage"
    ELSE IF IntOf[raw] > num_pages(object_list) THEN "EmptyPage"
    ELSE "ok"

\* Paginator.get_page(request.GET.get('page'))
get_page(object_list, raw) ==
    CASE validate_number(object_list, raw) = "ok" ->
            Rendered(page(object_list, IntOf[raw]))
      [] validate_number(object_list, raw) = "PageNotAnInteger" ->
            Rendered(page(object_list, 1))
      [] OTHER -> Rendered(page(object_list, num_pages(object_list)))

\* MultipleObjectMixin.paginate_queryset (ListView): page = GET.get('page') or 1;
\* int(page) failing raises Http404 unless page == 'last'; InvalidPage raises Http404
paginate_queryset(object_list, raw) ==
    LET pg == IF raw = NULL THEN "1" ELSE raw
    IN IF ~IsInt(pg)
       THEN IF pg = "last"
            THEN Rendered(page(object_list, num_pages(object_list)))
            ELSE NotFound
       ELSE IF validate_number(object_list, pg) = "ok"
            THEN Rendered(page(object_list, IntOf[pg]))
            ELSE NotFound

\* ----------------------------------------------------------------- init
NoRequest == Req("none", Anonymous, "GET", 0, 0, NULL, NULL)

Init ==
    /\ users = [u \in Users |-> "n0"]
    /\ categories = [c \in Slugs |-> TRUE]
    /\ locations = Locations
    /\ posts = <<>>
    /\ comments = <<>>
    /\ nextPostId = 1
    /\ nextCommentId = 1
    /\ now = 1
    /\ request = NoRequest
    /\ response = Rendered(<<>>)

\* --------------------------------------------------------------- the ORM
Restrict(f, S) == [x \in S |-> f[x]]

\* a request carries a session of an existing user, or none
Sessions == DOMAIN users \cup {Anonymous}

\* Post.author / Comment.author: on_delete=CASCADE from the user
PostsOfUsers(us) == {p \in DOMAIN posts : posts[p].author \in us}
\* on_delete=DO_NOTHING: no comment follows its post
CommentsOfPostsNone(ps) == {}

\* Comment.post: on_delete=CASCADE from the post
CommentsOfPosts(ps) == {c \in DOMAIN comments : comments[c].post \in ps}
CommentsOfUsers(us) == {c \in DOMAIN comments : comments[c].author \in us}

\* Post.category: on_delete=SET_NULL
CategoryAfterDelete(p, slug) ==
    IF posts[p].category = slug THEN NULL ELSE posts[p].category
\* Post.location: on_delete=SET_NULL
LocationAfterDelete(p, loc) ==
    IF posts[p].location = loc THEN NULL ELSE posts[p].location

\* a test that passes every logged-in user
test_func_any(author, user) == TRUE

\* OnlyAuthorMixin.test_func: object.author == request.user
test_func(author, user) == author = user

\* CreatePost.form_valid: the form's fields, author = request.user,
\* is_published by its default
NewPost(user, cat, loc, date) ==
    [author |-> user, category |-> cat, location |-> loc,
     is_published |-> TRUE, pub_date |-> date]

\* the comment attributed to the author of the post
NewCommentPostAuthor(user, post_id, text) ==
    [author |-> posts[post_id].author, post |-> post_id, text |-> text]

\* CreateComment.form_valid: author = request.user, post = self.chosen_post
NewComment(user, post_id, text) ==
    [author |-> user, post |-> post_id, text |-> text]

\* CreateComment.get_success_url: the detail page of kwargs['post_id']
CommentSuccessUrl(post_id) == RedirectDetail(post_id)

\* ---------------------------------------------------------- read views
\* Index.get_queryset + ListView pagination (the handler never reads
\* request.user)
Index(pg) ==
    /\ request' = Req("index", NULL, "GET", 0, 0, NULL, pg)
    /\ \E object_list \in get_published_posts(DOMAIN posts) :
           response' = paginate_queryset(object_list, pg)
    /\ UNCHANGED <<store, now>>

\* CategoryPosts: get_queryset keeps published categories, the slug lookup
\* raises Http404; get_context_data pages category.posts
CategoryPosts(slug, pg) ==
    /\ request' = Req("category_posts", NULL, "GET", 0, 0, slug, pg)
    /\ IF slug \in DOMAIN categories /\ categories[slug]
       THEN \E object_list \in get_published_posts(
                    {p \in DOMAIN posts : posts[p].category = slug}) :
                response' = get_page(object_list, pg)
       ELSE response' = NotFound
    /\ UNCHANGED <<store, now>>

\* Profile: the user looked up by username; get_context_data pages
\* get_users_posts().filter(author=self.object)
Profile(v, username, pg) ==
    /\ request' = Req("profile", v, "GET", 0, 0, username, pg)
    /\ IF username \in DOMAIN users
       THEN \E object_list \in get_users_posts(
                    {p \in DOMAIN posts : posts[p].author = username}, v) :
                response' = get_page(object_list, pg)
       ELSE response' = NotFound
    /\ UNCHANGED <<store, now>>

\* PostDetail.get_object: get_object_or_404(self.get_users_posts(), id=post_id)
PostDetailGet(v, id) ==
    /\ request' = Req("post_detail", v, "GET", id, 0, NULL, NULL)
    /\ \E object_list \in get_users_posts(DOMAIN posts \cap {id}, v) :
           response' = IF object_list = <<>> THEN NotFound
                       ELSE Rendered(object_list)
    /\ UNCHANGED <<store, now>>

\* a detail view whose form_valid saves the comment and redirects
PostDetailPostSaves(v, id) ==
    /\ request' = Req("post_detail", v, "POST", id, 0, NULL, NULL)
    /\ IF id \in DOMAIN posts /\ is_authenticated(v)
          /\ nextCommentId <= MaxComments
       THEN /\ comments' = (nextCommentId :> NewComment(v, id, "a")) @@ comments
            /\ nextCommentId' = nextCommentId + 1
            /\ response' = RedirectDetail(id)
            /\ UNCHANGED <<users, categories, locations, posts, nextPostId>>
       ELSE response' = ServerError /\ UNCHANGED store
    /\ UNCHANGED now

\* PostDetail is a FormView without success_url and without form_valid:
\* ProcessFormView.post validates the form and FormMixin.form_valid raises
\* ImproperlyConfigured (form_invalid reads self.object, which post never
\* sets); nothing is saved on either path
PostDetailPost(v, id) ==
    /\ request' = Req("post_detail", v, "POST", id, 0, NULL, NULL)
    /\ response' = ServerError
    /\ UNCHANGED <<store, now>>

\* ------------------------------------------------------ mutation views
\* CreatePost: LoginRequiredMixin, then CreateView
CreatePost(v, method, cat, loc, date) ==
    /\ request' = Req("create_post", v, method, 0, 0, NULL, NULL)
    /\ IF ~is_authenticated(v)
       THEN response' = RedirectLogin /\ UNCHANGED store
       ELSE IF method = "GET"
       THEN response' = Rendered(<<>>) /\ UNCHANGED store
       ELSE /\ nextPostId <= MaxPosts
            /\ cat \in DOMAIN categories
            /\ loc \in locations \cup {NULL}
            /\ posts' = (nextPostId :> NewPost(v, cat, loc, date)) @@ posts
            /\ nextPostId' = nextPostId + 1
            /\ response' = RedirectProfile(v)
            /\ UNCHANGED <<users, categories, locations, comments, nextCommentId>>
    /\ UNCHANGED now

\* EditPost.dispatch runs before the mixins' dispatch: get_object_or_404, then
\* the redirect of whoever is not the author, then LoginRequiredMixin,
\* OnlyAuthorMixin and UpdateView
EditPost(v, id, method, cat, loc, date) ==
    /\ request' = Req("edit_post", v, method, id, 0, NULL, NULL)
    /\ IF id \notin DOMAIN posts
       THEN response' = NotFound /\ UNCHANGED store
       ELSE IF posts[id].author # v
       THEN response' = RedirectDetail(id) /\ UNCHANGED store
       ELSE IF ~is_authenticated(v)
       THEN response' = RedirectLogin /\ UNCHANGED store
       ELSE IF ~test_func(posts[id].author, v)
       THEN response' = Forbidden /\ UNCHANGED store
       ELSE IF method = "GET"
       THEN response' = Rendered(<<>>) /\ UNCHANGED store
       ELSE /\ cat \in DOMAIN categories
            /\ loc \in locations \cup {NULL}
            /\ posts' = [posts EXCEPT ![id] =
                   [@ EXCEPT !.category = cat, !.location = loc,
                             !.pub_date = date]]
            /\ response' = RedirectProfile(v)
            /\ UNCHANGED <<users, categories, locations, comments,
                           nextPostId, nextCommentId>>
    /\ UNCHANGED now

\* DeletePost: LoginRequiredMixin, OnlyAuthorMixin (get_object raises Http404),
\* DeleteView; the delete cascades to the post's comments
DeletePost(v, id, method) ==
    /\ request' = Req("delete_post", v, method, id, 0, NULL, NULL)
    /\ IF ~is_authenticated(v)
       THEN response' = RedirectLogin /\ UNCHANGED store
       ELSE IF id \notin DOMAIN posts
       THEN response' = NotFound /\ UNCHANGED store
       ELSE IF ~test_func(posts[id].author, v)
       THEN response' = Forbidden /\ UNCHANGED store
       ELSE IF method = "GET"
       THEN response' = Rendered(<<>>) /\ UNCHANGED store
       ELSE /\ posts' = Restrict(posts, DOMAIN posts \ {id})
            /\ comments' = Restrict(comments,
                                    DOMAIN comments \ CommentsOfPosts({id}))
            /\ response' = RedirectProfile(v)
            /\ UNCHANGED <<users, categories, locations, nextPostId,
                           nextCommentId>>
    /\ UNCHANGED now

\* CreateComment.dispatch: get_object_or_404(Post) first, then
\* LoginRequiredMixin, then CreateView.post with form_valid
CreateComment(v, id, text) ==
    /\ request' = Req("add_comment", v, "POST", id, 0, NULL, NULL)
    /\ IF id \notin DOMAIN posts
       THEN response' = NotFound /\ UNCHANGED store
       ELSE IF ~is_authenticated(v)
       THEN response' = RedirectLogin /\ UNCHANGED store
       ELSE /\ nextCommentId <= MaxComments
            /\ comments' = (nextCommentId :> NewComment(v, id, text))
                            @@ comments
            /\ nextCommentId' = nextCommentId + 1
            /\ response' = CommentSuccessUrl(id)
            /\ UNCHANGED <<users, categories, locations, posts, nextPostId>>
    /\ UNCHANGED now

\* EditComment: LoginRequiredMixin, OnlyAuthorMixin, UpdateView; the comment
\* is looked up by comment_id alone and the success url is
\* Comment.get_absolute_url
EditComment(v, cid, method, text) ==
    /\ request' = Req("edit_comment", v, method, 0, cid, NULL, NULL)
    /\ IF ~is_authenticated(v)
       THEN response' = RedirectLogin /\ UNCHANGED store
       ELSE IF cid \notin DOMAIN comments
       THEN response' = NotFound /\ UNCHANGED store
       ELSE IF ~test_func(comments[cid].author, v)
       THEN response' = Forbidden /\ UNCHANGED store
       ELSE IF method = "GET"
       THEN response' = Rendered(<<>>) /\ UNCHANGED store
       ELSE /\ comments' = [comments EXCEPT ![cid].text = text]
            /\ response' = RedirectDetail(comments[cid].post)
            /\ UNCHANGED <<users, categories, locations, posts, nextPostId,
                           nextCommentId>>
    /\ UNCHANGED now

\* DeleteComment: LoginRequiredMixin, OnlyAuthorMixin, DeleteView
DeleteComment(v, cid, method) ==
    /\ request' = Req("delete_comment", v, method, 0, cid, NULL, NULL)
    /\ IF ~is_authenticated(v)
       THEN response' = RedirectLogin /\ UNCHANGED store
       ELSE IF cid \notin DOMAIN comments
       THEN response' = NotFound /\ UNCHANGED store
       ELSE IF ~test_func(comments[cid].author, v)
       THEN response' = Forbidden /\ UNCHANGED store
       ELSE IF method = "GET"
       THEN response' = Rendered(<<>>) /\ UNCHANGED store
       ELSE /\ comments' = Restrict(comments, DOMAIN comments \ {cid})
            /\ response' = RedirectDetail(comments[cid].post)
            /\ UNCHANGED <<users, categories, locations, posts, nextPostId,
                           nextCommentId>>
    /\ UNCHANGED now

\* EditProfile: LoginRequiredMixin, UpdateView on request.user
EditProfile(v, method, first_name) ==
    /\ request' = Req("edit_profile", v, method, 0, 0, NULL, NULL)
    /\ IF ~is_authenticated(v)
       THEN response' = RedirectLogin /\ UNCHANGED store
       ELSE IF method = "GET"
       THEN response' = Rendered(<<>>) /\ UNCHANGED store
       ELSE /\ users' = [users EXCEPT ![v] = first_name]
            /\ response' = RedirectProfile(v)
            /\ UNCHANGED <<categories, locations, posts, comments,
                           nextPostId, nextCommentId>>
    /\ UNCHANGED now

\* ------------------------------------------------- admin site and clock
AdminReq(view, name, post_id) == Req(view, "admin", "POST", post_id, 0, name, NULL)

\* deleting a user: CASCADE to the user's posts and comments, and from the
\* posts to their comments
DeleteUser(u) ==
    /\ u \in DOMAIN users
    /\ request' = AdminReq("admin_delete_user", u, 0)
    /\ response' = Rendered(<<>>)
    /\ users' = Restrict(users, DOMAIN users \ {u})
    /\ posts' = Restrict(posts, DOMAIN posts \ PostsOfUsers({u}))
    /\ comments' = Restrict(comments,
           DOMAIN comments \ (CommentsOfUsers({u})
                              \cup CommentsOfPosts(PostsOfUsers({u}))))
    /\ UNCHANGED <<categories, locations, nextPostId, nextCommentId, now>>

\* deleting a category: SET_NULL on the posts that reference it
DeleteCategory(slug) ==
    /\ slug \in DOMAIN categories
    /\ request' = AdminReq("admin_delete_category", slug, 0)
    /\ response' = Rendered(<<>>)
    /\ categories' = Restrict(categories, DOMAIN categories \ {slug})
    /\ posts' = [p \in DOMAIN posts |->
                    [posts[p] EXCEPT !.category = CategoryAfterDelete(p, slug)]]
    /\ UNCHANGED <<users, locations, comments, nextPostId, nextCommentId, now>>

\* deleting a location: SET_NULL on the posts that reference it
DeleteLocation(loc) ==
    /\ loc \in locations
    /\ request' = AdminReq("admin_delete_location", loc, 0)
    /\ response' = Rendered(<<>>)
    /\ locations' = locations \ {loc}
    /\ posts' = [p \in DOMAIN posts |->
                    [posts[p] EXCEPT !.location = LocationAfterDelete(p, loc)]]
    /\ UNCHANGED <<users, categories, comments, nextPostId, nextCommentId, now>>

\* PostAdmin.list_editable = ('is_published',)
SetPostPublished(id, b) ==
    /\ id \in DOMAIN posts
    /\ request' = AdminReq("admin_post_published", NULL, id)
    /\ response' = Rendered(<<>>)
    /\ posts' = [posts EXCEPT ![id].is_published = b]
    /\ UNCHANGED <<users, categories, locations, comments, nextPostId,
                   nextCommentId, now>>

\* CategoryAdmin.list_editable = ('is_published',)
SetCategoryPublished(slug, b) ==
    /\ slug \in DOMAIN categories
    /\ request' = AdminReq("admin_category_published", slug, 0)
    /\ response' = Rendered(<<>>)
    /\ categories' = [categories EXCEPT ![slug] = b]
    /\ UNCHANGED <<users, locations, posts, comments, nextPostId,
                   nextCommentId, now>>

\* the wall clock read by timezone.now() advances
Tick ==
    /\ now < MaxTime
    /\ now' = now + 1
    /\ request' = Req("tick", "clock", "GET", 0, 0, NULL, NULL)
    /\ response' = Rendered(<<>>)
    /\ UNCHANGED store

\* ------------------------------------------------------- specifications
\* Feeds: posts of both authors in every category, publication and date
\* state, read through the four listing handlers.
NextFeed ==
    \/ \E v \in DOMAIN users, cat \in Slugs, date \in Times :
           CreatePost(v, "POST", cat, NULL, date)
    \/ \E id \in DOMAIN posts, cat \in Slugs, date \in Times :
           EditPost(posts[id].author, id, "POST", cat, NULL, date)
    \/ \E id \in DOMAIN posts : DeletePost(posts[id].author, id, "POST")
    \/ \E id \in PostIds, b \in BOOLEAN : SetPostPublished(id, b)
    \/ \E slug \in Slugs, b \in BOOLEAN : SetCategoryPublished(slug, b)
    \/ \E slug \in Slugs : DeleteCategory(slug)
    \/ Tick
    \/ Index(NULL)
    \/ \E slug \in Slugs : CategoryPosts(slug, NULL)
    \/ \E v \in Sessions, u \in Users : Profile(v, u, NULL)
    \/ \E v \in Sessions, id \in PostIds : PostDetailGet(v, id)

SpecFeed == Init /\ [][NextFeed]_vars

\* Pagination: the three feeds under every value of the page parameter.
NextPage ==
    \/ \E v \in DOMAIN users : CreatePost(v, "POST", "c1", NULL, 1)
    \/ \E pg \in PageParams : Index(pg)
    \/ \E pg \in PageParams : CategoryPosts("c1", pg)
    \/ \E v \in Sessions, u \in Users, pg \in PageParams : Profile(v, u, pg)
    \/ \E v \in Sessions, m \in Methods, n \in Names : EditProfile(v, m, n)

SpecPage == Init /\ [][NextPage]_vars

\* Comments: creation, deletion and cascades, read through the feeds and the
\* detail page.
NextComments ==
    \/ \E v \in DOMAIN users : CreatePost(v, "POST", "c1", NULL, 1)
    \/ \E id \in PostIds, b \in BOOLEAN : SetPostPublished(id, b)
    \/ \E v \in Sessions, id \in PostIds : CreateComment(v, id, "a")
    \/ \E v \in Sessions, cid \in CommentIds : DeleteComment(v, cid, "POST")
    \/ \E v \in Sessions, id \in PostIds : DeletePost(v, id, "POST")
    \/ \E v \in Sessions, id \in PostIds : PostDetailPost(v, id)
    \/ Index(NULL)
    \/ CategoryPosts("c1", NULL)
    \/ \E v \in Sessions, u \in Users : Profile(v, u, NULL)
    \/ \E v \in Sessions, id \in PostIds : PostDetailGet(v, id)

SpecComments == Init /\ [][NextComments]_vars

\* Authorization: every mutation handler under every session and method.
NextAuth ==
    \/ \E v \in Sessions, m \in Methods : CreatePost(v, m, "c1", NULL, 1)
    \/ \E v \in Sessions, id \in PostIds, m \in Methods, cat \in Slugs :
           EditPost(v, id, m, cat, NULL, 1)
    \/ \E v \in Sessions, id \in PostIds, m \in Methods : DeletePost(v, id, m)
    \/ \E v \in Sessions, id \in PostIds : CreateComment(v, id, "a")
    \/ \E v \in Sessions, cid \in CommentIds, m \in Methods, t \in Texts :
           EditComment(v, cid, m, t)
    \/ \E v \in Sessions, cid \in CommentIds, m \in Methods :
           DeleteComment(v, cid, m)

SpecAuth == Init /\ [][NextAuth]_vars

\* Referential integrity: creations and the deletions of every kind of row.
NextIntegrity ==
    \/ \E v \in DOMAIN users, cat \in Slugs, loc \in Locations \cup {NULL} :
           CreatePost(v, "POST", cat, loc, 1)
    \/ \E v \in DOMAIN users, id \in PostIds : CreateComment(v, id, "a")
    \/ \E v \in DOMAIN users, id \in PostIds : DeletePost(v, id, "POST")
    \/ \E v \in DOMAIN users, cid \in CommentIds : DeleteComment(v, cid, "POST")
    \/ \E u \in Users : DeleteUser(u)
    \/ \E slug \in Slugs : DeleteCategory(slug)
    \/ \E loc \in Locations : DeleteLocation(loc)

SpecIntegrity == Init /\ [][NextIntegrity]_vars

\* ================================================================ claims
\* the rule of the specification: published, in a published category, and
\* its publication date reached
VisibilityPredicate(p) ==
    /\ posts[p].is_published
    /\ posts[p].category # NULL
    /\ posts[p].category \in DOMAIN categories
    /\ categories[posts[p].category]
    /\ posts[p].pub_date <= now

\* the ids a response lists
Listed == {response.items[i].id : i \in DOMAIN response.items}
CommentsOn(p) == {c \in DOMAIN comments : comments[c].post = p}

\* C1: a post is listed in the global feed iff it is published, its category
\* is published and its pub_date is not after the time of the request; it is
\* listed in the feed of category C iff the same holds and its category is C.
C1_FeedVisibility ==
    /\ request.view = "index" =>
           /\ response.status = "ok"
           /\ \A p \in DOMAIN posts : p \in Listed <=> VisibilityPredicate(p)
    /\ request.view = "category_posts" =>
           \A p \in DOMAIN posts :
               p \in Listed <=>
                   VisibilityPredicate(p) /\ posts[p].category = request.name

\* a post written before its pub_date is listed once the clock reached it
C1_Witness ==
    /\ request.view = "index"
    /\ \E p \in Listed : posts[p].pub_date = now /\ now > 1

\* C2: the profile feed of U lists a post iff U wrote it and (the viewer is U
\* or the post is visible); an anonymous viewer is a viewer other than U.
C2_ProfileFeed ==
    request.view = "profile" /\ request.name \in DOMAIN users =>
        /\ response.status = "ok"
        /\ \A p \in DOMAIN posts :
               p \in Listed <=>
                   /\ posts[p].author = request.name
                   /\ request.user = request.name \/ VisibilityPredicate(p)

\* the owner's own profile lists a hidden post of theirs
C2_Witness ==
    /\ request.view = "profile"
    /\ request.user = request.name
    /\ \E p \in Listed : ~VisibilityPredicate(p)

\* C3: GET of the detail page returns the post when it exists and the viewer
\* is its author or it is visible; otherwise the one not-found outcome, for
\* a hidden post as for a missing id, and never forbidden.
C3_DetailLookup ==
    request.view = "post_detail" /\ request.method = "GET" =>
        IF /\ request.post_id \in DOMAIN posts
           /\ \/ posts[request.post_id].author = request.user
              \/ VisibilityPredicate(request.post_id)
        THEN response.status = "ok" /\ Listed = {request.post_id}
        ELSE response = NotFound

\* an existing hidden post asked for by somebody else: not found
C3_Witness ==
    /\ request.view = "post_detail" /\ request.method = "GET"
    /\ request.post_id \in DOMAIN posts
    /\ ~VisibilityPredicate(request.post_id)
    /\ posts[request.post_id].author # request.user
    /\ response = NotFound

\* C4: in every feed a page number beyond the last page returns the items of
\* the last page and a missing or non-integer page returns page 1. With at
\* most paginate_by posts there is one page, so every request lists them all.
C4_PageClamp ==
    /\ request.view = "index" =>
           response.status = "ok"
           /\ Listed = {p \in DOMAIN posts : VisibilityPredicate(p)}
    /\ request.view = "category_posts" /\ request.name \in DOMAIN categories =>
           response.status = "ok"
           /\ Listed = {p \in DOMAIN posts :
                           VisibilityPredicate(p)
                           /\ posts[p].category = request.name}
    /\ request.view = "profile" /\ request.name \in DOMAIN users =>
           response.status = "ok"
           /\ Listed = {p \in DOMAIN posts :
                           /\ posts[p].author = request.name
                           /\ request.user = request.name
                              \/ VisibilityPredicate(p)}

\* C5: an unauthenticated request to a mutation endpoint whose target exists
\* is answered with the redirect to login, and changes nothing stored.
MutationViews ==
    {"create_post", "edit_post", "delete_post", "add_comment",
     "edit_comment", "delete_comment", "edit_profile"}
C5_LoginFirst ==
    [][(/\ request'.view \in MutationViews
        /\ ~is_authenticated(request'.user)
        /\ request'.view \in {"edit_post", "delete_post", "add_comment"}
               => request'.post_id \in DOMAIN posts
        /\ request'.view \in {"edit_comment", "delete_comment"}
               => request'.comment_id \in DOMAIN comments)
       => response' = RedirectLogin /\ store' = store]_vars

\* C6: an edit or delete by a logged-in user who is not the author changes no
\* post and no comment and answers forbidden (post edit: the redirect to the
\* detail page); so a post or comment changes or disappears only in a request
\* of its author or, for a comment, with its post.
C6_OnlyAuthor ==
    [][/\ (/\ request'.view \in {"edit_post", "delete_post"}
           /\ is_authenticated(request'.user)
           /\ request'.post_id \in DOMAIN posts
           /\ posts[request'.post_id].author # request'.user)
          => /\ posts' = posts /\ comments' = comments
             /\ response' = IF request'.view = "edit_post"
                            THEN RedirectDetail(request'.post_id)
                            ELSE Forbidden
       /\ (/\ request'.view \in {"edit_comment", "delete_comment"}
           /\ is_authenticated(request'.user)
           /\ request'.comment_id \in DOMAIN comments
           /\ comments[request'.comment_id].author # request'.user)
          => /\ posts' = posts /\ comments' = comments
             /\ response' = Forbidden
       /\ \A p \in DOMAIN posts :
              (p \notin DOMAIN posts' \/ posts'[p] # posts[p])
                  => request'.user = posts[p].author
       /\ \A c \in DOMAIN comments :
              (c \notin DOMAIN comments' \/ comments'[c] # comments[c])
                  => \/ request'.user = comments[c].author
                     \/ /\ c \notin DOMAIN comments'
                        /\ comments[c].post \notin DOMAIN posts'
                        /\ request'.user = posts[comments[c].post].author
      ]_vars

\* a POST to edit somebody else's comment was refused
C6_Witness ==
    /\ request.view = "edit_comment" /\ request.method = "POST"
    /\ request.comment_id \in DOMAIN comments
    /\ comments[request.comment_id].author # request.user
    /\ response = Forbidden

\* C7: a valid comment submitted by logged-in U to the comment endpoint of an
\* existing post i, visible to U or not, adds exactly one comment, by U on i,
\* and redirects to the detail page of i; for a missing i it is not found
\* and no comment is added.
C7_CommentSubmission ==
    [][(request'.view = "add_comment" /\ is_authenticated(request'.user)) =>
        IF request'.post_id \in DOMAIN posts
        THEN /\ \E c \in DOMAIN comments' \ DOMAIN comments :
                    /\ DOMAIN comments' = DOMAIN comments \cup {c}
                    /\ comments'[c].author = request'.user
                    /\ comments'[c].post = request'.post_id
             /\ \A d \in DOMAIN comments : comments'[d] = comments[d]
             /\ response' = RedirectDetail(request'.post_id)
        ELSE response' = NotFound /\ comments' = comments]_vars

\* a comment was accepted on a post its writer cannot see
C7_Witness ==
    /\ request.view = "add_comment"
    /\ response = RedirectDetail(request.post_id)
    /\ request.post_id \in DOMAIN posts
    /\ ~posts[request.post_id].is_published
    /\ posts[request.post_id].author # request.user
    /\ \E c \in DOMAIN comments :
           comments[c].author = request.user
           /\ comments[c].post = request.post_id

ReferencesHold ==
    /\ \A c \in DOMAIN comments :
           comments[c].post \in DOMAIN posts
           /\ comments[c].author \in DOMAIN users
    /\ \A p \in DOMAIN posts :
           /\ posts[p].author \in DOMAIN users
           /\ posts[p].category \in DOMAIN categories \cup {NULL}
           /\ posts[p].location \in locations \cup {NULL}
C10_ReferentialIntegrity ==
    /\ []ReferencesHold
    /\ [][/\ request'.view = "admin_delete_category" =>
              /\ DOMAIN posts' = DOMAIN posts
              /\ comments' = comments
              /\ \A p \in DOMAIN posts :
                     posts'[p] = [posts[p] EXCEPT !.category =
                         IF @ = request'.name THEN NULL ELSE @]
          /\ request'.view = "admin_delete_location" =>
              /\ DOMAIN posts' = DOMAIN posts
              /\ comments' = comments
              /\ \A p \in DOMAIN posts :
                     posts'[p] = [posts[p] EXCEPT !.location =
                         IF @ = request'.name THEN NULL ELSE @]]_vars

\* a category was deleted under a commented post, which stays with NULL
C10_Witness ==
    /\ request.view = "admin_delete_category"
    /\ \E p \in DOMAIN posts :
           /\ posts[p].category = NULL
           /\ CommentsOn(p) # {}
====
